---------------------------- MODULE Spec2Model ----------------------------
(***************************************************************************)
(* A model of cats (climate aware task scheduler):                         *)
(*   cats/__init__.py               main                                   *)
(*   cats/check_clean_arguments.py  validate_jobinfo                       *)
(*   cats/configure.py              get_runtime_config and its helpers     *)
(*                                                                         *)
(* Text is modelled as a sequence of atoms.  An atom is one character      *)
(* ("=", ",", "-", ".", "_", a digit) or a literal word that stands for    *)
(* its letters ("memory", "cpus", "CPU_partition", "x").  A word atom is   *)
(* made of \w characters only, so a run of word atoms is a run that the    *)
(* regular expression \w+ matches.                                         *)
(*                                                                         *)
(* Instants are minutes after 2023-01-01 00:00; intensities are integers;  *)
(* an average is an exact fraction [num, den].                             *)
(***************************************************************************)
EXTENDS Integers, Sequences, FiniteSets, TLC

\* ------------------------------------------------------------------------
\* Bounds of the model
\* ------------------------------------------------------------------------
\* digits 0..MaxDigit are used to write the numbers of a job-info string
MaxDigit == 2
\* a forecast holds at most MaxSamples samples
MaxSamples == 2

\* ------------------------------------------------------------------------
\* Python values
\* ------------------------------------------------------------------------
None == "<None>"

\* truthiness of an optional string argument: None and "" are falsy
Truthy(s) == s # None /\ s # ""

\* a text argument that is not given (None), as a sequence of atoms
NoText == << >>

TruthyText(s) == s # NoText

\* ------------------------------------------------------------------------
\* Text: the pattern (\w+)=(\w+) and int()
\* ------------------------------------------------------------------------
DigitChars == <<"0", "1", "2", "3", "4", "5", "6", "7", "8", "9">>

IsDigit(c) == \E d \in 1..10 : DigitChars[d] = c

DigitValue(c) == (CHOOSE d \in 1..10 : DigitChars[d] = c) - 1

\* (a slip: the pattern written [\w-]+, which lets a sign into a value)
IsWord_Hyphen(c) == c \notin {"=", ",", ".", " "}

\* \w: everything but the separators the model writes
IsWord(c) == c \notin {"=", ",", "-", ".", " "}

\* the last position of the greedy \w+ run that starts at i (s[i] is \w)
RECURSIVE RunEnd(_, _)
RunEnd(s, i) ==
    IF i + 1 <= Len(s) /\ IsWord(s[i + 1]) THEN RunEnd(s, i + 1) ELSE i

\* re.finditer(r"(\w+)=(\w+)", s): the groups of the non-overlapping
\* matches, leftmost first, searched from position i
RECURSIVE FindIter(_, _)
FindIter(s, i) ==
    IF i > Len(s) THEN << >>
    ELSE IF ~IsWord(s[i]) THEN FindIter(s, i + 1)
    ELSE LET e == RunEnd(s, i) IN
         IF e + 2 <= Len(s) /\ s[e + 1] = "=" /\ IsWord(s[e + 2])
         THEN LET f == RunEnd(s, e + 2) IN
              << <<SubSeq(s, i, e), SubSeq(s, e + 2, f)>> >> \o FindIter(s, f + 1)
         ELSE FindIter(s, i + 1)

\* dict(pairs): a later pair replaces an earlier one with the same key
DictOf(pairs) ==
    LET keys == {pairs[n][1] : n \in 1..Len(pairs)}
        last(k) == CHOOSE n \in 1..Len(pairs) :
                      /\ pairs[n][1] = k
                      /\ \A m \in 1..Len(pairs) : pairs[m][1] = k => m <= n
    IN [k \in keys |-> pairs[last(k)][2]]

\* the decimal value of a run of digits and underscores
RECURSIVE DecimalOf(_)
DecimalOf(w) ==
    IF w = << >> THEN 0
    ELSE LET init == SubSeq(w, 1, Len(w) - 1)
             c == w[Len(w)]
         IN IF c = "_" THEN DecimalOf(init) ELSE 10 * DecimalOf(init) + DigitValue(c)

\* a run of digits, with single underscores between digits
IntOk(w) ==
    /\ Len(w) > 0
    /\ \A n \in 1..Len(w) : IsDigit(w[n]) \/ w[n] = "_"
    /\ IsDigit(w[1]) /\ IsDigit(w[Len(w)])
    /\ \A n \in 1..(Len(w) - 1) : ~(w[n] = "_" /\ w[n + 1] = "_")

\* int(w) succeeds: an optional sign, then digits and underscores as above
IntOkSigned(w) ==
    IF Len(w) > 0 /\ w[1] \in {"-", "+"} THEN IntOk(Tail(w)) ELSE IntOk(w)

IntOfSigned(w) ==
    IF w[1] = "-" THEN 0 - DecimalOf(Tail(w))
    ELSE IF w[1] = "+" THEN DecimalOf(Tail(w))
    ELSE DecimalOf(w)

\* ------------------------------------------------------------------------
\* check_clean_arguments.validate_jobinfo
\* ------------------------------------------------------------------------
expected_info_keys == {<<"memory">>, <<"cpus">>, <<"gpus">>}

EmptyDict == [k \in {} |-> 0]

\* line 24: info = dict([m.groups() for m in re.finditer(...)])
ParseInfo(jobinfo_str) == DictOf(FindIter(jobinfo_str, 1))

\* line 31: profile = info.pop("profile", "default")
PoppedProfile(info) ==
    IF <<"profile">> \in DOMAIN info THEN info[<<"profile">>] ELSE <<"default">>

\* [info, err]: the returned dict and what was written to stderr
validate_jobinfo(jobinfo_str, expected_profile_names) ==
    LET info == ParseInfo(jobinfo_str)
        rest == DOMAIN info \ {<<"profile">>}
    IN IF expected_info_keys \ DOMAIN info # {}
       THEN [info |-> EmptyDict, err |-> "missing_keys"]
       ELSE IF PoppedProfile(info) \notin expected_profile_names
       THEN [info |-> EmptyDict, err |-> "bad_profile"]
       ELSE IF \E k \in rest : ~IntOkSigned(info[k])
       THEN [info |-> EmptyDict, err |-> "not_numeric"]
       ELSE [info |-> [k \in rest |-> IntOfSigned(info[k])], err |-> "none"]


\* ------------------------------------------------------------------------
\* Inputs: job-info strings
\* ------------------------------------------------------------------------
Digit(d) == DigitChars[d + 1]

\* what a user may write after "memory=", "cpus=", "gpus="
CountTexts ==
    {<<Digit(d)>> : d \in 0..MaxDigit}
      \cup {<<"1", Digit(MaxDigit)>>, <<"1", "_", "0">>, <<"-", "2">>,
            <<"2", ".", "5">>, <<"2", "x">>, <<"x">>}

ProfileTexts ==
    {<<"default">>, <<"CPU_partition">>, <<"GPU_partition">>, <<"bogus">>, <<"1">>}

\* a key=value field, or nothing when the value is << >>
Field(key, text) == IF text = << >> THEN << >> ELSE <<key, "=">> \o text

\* the fields joined by commas
RECURSIVE Join(_)
Join(fields) ==
    IF fields = << >> THEN << >>
    ELSE IF Head(fields) = << >> THEN Join(Tail(fields))
    ELSE LET rest == Join(Tail(fields)) IN
         IF rest = << >> THEN Head(fields) ELSE Head(fields) \o <<",">> \o rest

ExtraFields ==
    {<< >>, <<"x", "=", "1">>, <<"partition", "=", "CPU_partition">>,
     <<"cpus", "=", "2">>, <<"ncpus", "=", "1">>}

\* every job-info string the pure-function checks of validate_jobinfo read
JobInfoStrings ==
    {Join(<<Field("profile", p), Field("memory", m), Field("cpus", c),
            Field("gpus", g), x>>) :
        p \in ProfileTexts \cup {<< >>},
        m \in {<<"8">>, << >>},
        c \in CountTexts \cup {<< >>},
        g \in CountTexts \cup {<< >>},
        x \in ExtraFields}

\* the --jobinfo arguments of the runs of main
MainJobInfos ==
    {<<"cpus", "=", "2", ",", "gpus", "=", "0", ",", "memory", "=", "8">>,
     <<"profile", "=", "GPU_partition", ",", "cpus", "=", "1", ",",
       "gpus", "=", "1", ",", "memory", "=", "8">>,
     <<"cpus", "=", "-", "2", ",", "gpus", "=", "0", ",", "memory", "=", "8">>,
     <<"cpus", "=", "0", ",", "gpus", "=", "0", ",", "memory", "=", "0", ",",
       "x", "=", "1">>}

\* ------------------------------------------------------------------------
\* Inputs: configuration files (YAML mappings)
\* ------------------------------------------------------------------------
DefaultAPI == "carbonintensity.org.uk"

\* the dict with the given entries; an entry of Absent is left out
Absent == "<absent>"

MkConfig(api, loc, hasParts, parts) ==
    LET keys == (IF api = Absent THEN {} ELSE {"api"})
                  \cup (IF loc = Absent THEN {} ELSE {"location"})
                  \cup (IF hasParts THEN {"partitions"} ELSE {})
    IN [k \in keys |-> CASE k = "api" -> api
                         [] k = "location" -> loc
                         [] k = "partitions" -> parts]

PartitionLists ==
    {<< <<"default">> >>, << <<"CPU_partition">>, <<"GPU_partition">> >>}

ConfigFiles ==
    {MkConfig(a, l, TRUE, p) :
        a \in {Absent, DefaultAPI, "bogus.example"},
        l \in {Absent, "OX1"},
        p \in PartitionLists}
    \cup {MkConfig(a, l, FALSE, << >>) :
        a \in {Absent, DefaultAPI, "bogus.example"},
        l \in {Absent, "OX1"}}

\* what opening a file gives: its content, or no such file
NoFile == [missing |-> TRUE]

FileOutcomes == ConfigFiles \cup {NoFile}

\* list(d.keys()) of an (ordered) partitions mapping, as a set
NameSet(parts) == {parts[n] : n \in 1..Len(parts)}


\* ------------------------------------------------------------------------
\* Inputs: forecasts.  A forecast is a step function: sample n holds from
\* its timestamp to the next sample's, the last one to the horizon.
\* ------------------------------------------------------------------------
\* the instant of the first sample: 2023-01-01 23:30
FirstInstant == 23 * 60 + 30

SegmentMinutes == {30, 60}

Intensities == {1, 2}

\* the sequences of at most n (length, intensity) segments
RECURSIVE SegmentSeqs(_)
SegmentSeqs(n) ==
    IF n = 0 THEN {<< >>}
    ELSE LET shorter == SegmentSeqs(n - 1) IN
         shorter \cup {Append(q, [len |-> l, ci |-> c]) :
                          q \in {r \in shorter : Len(r) = n - 1},
                          l \in SegmentMinutes, c \in Intensities}

RECURSIVE TotalLen(_)
TotalLen(q) == IF q = << >> THEN 0 ELSE q[Len(q)].len + TotalLen(SubSeq(q, 1, Len(q) - 1))

ForecastOf(q) ==
    [samples |-> [n \in 1..Len(q) |->
                    [t |-> FirstInstant + TotalLen(SubSeq(q, 1, n - 1)), ci |-> q[n].ci]],
     horizon |-> FirstInstant + TotalLen(q)]

Forecasts == {ForecastOf(q) : q \in SegmentSeqs(MaxSamples)}

NoForecast == [samples |-> << >>, horizon |-> 0]

\* ------------------------------------------------------------------------
\* optimise_starttime.get_avg_estimates (ForecastWindowOptimizer)
\* ------------------------------------------------------------------------
Max(a, b) == IF a >= b THEN a ELSE b

Min(a, b) == IF a <= b THEN a ELSE b

\* the instant to which sample n holds
SegEnd(f, n) == IF n < Len(f.samples) THEN f.samples[n + 1].t ELSE f.horizon

\* minutes of [a1, a2) that lie in [b1, b2)
Overlap(a1, a2, b1, b2) == Max(0, Min(a2, b2) - Max(a1, b1))

\* sum over the samples 1..n of intensity x overlap with [start, start + d)
RECURSIVE WeightedSum(_, _, _, _)
WeightedSum(f, start, d, n) ==
    IF n = 0 THEN 0
    ELSE f.samples[n].ci * Overlap(f.samples[n].t, SegEnd(f, n), start, start + d)
           + WeightedSum(f, start, d, n - 1)

\* the time-weighted average intensity over [start, start + d), a fraction
WindowAverage(f, start, d) ==
    [num |-> WeightedSum(f, start, d, Len(f.samples)), den |-> d]

\* fractions with positive denominators
FracLeq(a, b) == a.num * b.den <= b.num * a.den

FracEq(a, b) == a.num * b.den = b.num * a.den

FracLess(a, b) == a.num * b.den < b.num * a.den

\* the samples at which a full window of d minutes fits in the horizon
CandidateStarts(f, d) ==
    {n \in 1..Len(f.samples) : f.samples[n].t + d <= f.horizon}

Estimate(f, n, d) ==
    [start |-> f.samples[n].t, value |-> WindowAverage(f, f.samples[n].t, d)]

\* the scan for the minimum over the candidates 1..n: a later window
\* replaces the one held only if its average is strictly lower
RECURSIVE BestAmong(_, _, _)
BestAmong(f, d, n) ==
    IF n = 1 THEN 1
    ELSE LET held == BestAmong(f, d, n - 1) IN
         IF FracLess(WindowAverage(f, f.samples[n].t, d),
                     WindowAverage(f, f.samples[held].t, d))
         THEN n ELSE held

\* the index of the minimum-average window, the earliest on a tie (the
\* candidates are the first samples, timestamps being increasing)
BestIndex(f, d) == BestAmong(f, d, Cardinality(CandidateStarts(f, d)))

\* [error, now, best]
NoEstimate == [start |-> 0, value |-> [num |-> 0, den |-> 1]]

get_avg_estimates(f, d) ==
    IF Len(f.samples) = 0
    THEN [error |-> "EmptyForecast", now |-> NoEstimate, best |-> NoEstimate]
    ELSE IF f.horizon - f.samples[1].t < d
    THEN [error |-> "InsufficientForecastHorizon", now |-> NoEstimate, best |-> NoEstimate]
    ELSE [error |-> "none",
          now |-> Estimate(f, 1, d),
          best |-> Estimate(f, BestIndex(f, d), d)]

\* f"{start:%Y%m%d%H%M}" of an instant of January 2023
strftime(t) ==
    <<2023, 1, 1 + (t \div 1440), (t \div 60) % 24, t % 60>>

\* ------------------------------------------------------------------------
\* carbonFootprint.greenAlgorithmsCalculator (FootprintEstimator)
\* ------------------------------------------------------------------------
\* watts per cpu, per gpu and per GB of memory of each configured partition
PartitionPower(name) ==
    CASE name = <<"default">> -> [cpu |-> 10, gpu |-> 0, mem |-> 1]
      [] name = <<"CPU_partition">> -> [cpu |-> 12, gpu |-> 0, mem |-> 1]
      [] OTHER -> [cpu |-> 10, gpu |-> 250, mem |-> 1]

\* watt-minutes of a job of `minutes` minutes
Energy(power, job, minutes) ==
    (job[<<"cpus">>] * power.cpu + job[<<"gpus">>] * power.gpu
       + job[<<"memory">>] * power.mem) * minutes

\* grams of CO2e: energy in kWh (watt-minutes / 60000) x intensity
Emissions(energy, intensity) ==
    [num |-> energy * intensity.num, den |-> 60000 * intensity.den]

\* a - b, over the common denominator when the two share one
FracMinus(a, b) ==
    IF a.den = b.den THEN [num |-> a.num - b.num, den |-> a.den]
    ELSE [num |-> a.num * b.den - b.num * a.den, den |-> a.den * b.den]

get_footprint(power, job, minutes, averageBest_carbonIntensity, averageNow_carbonIntensity) ==
    LET e == Energy(power, job, minutes)
        n == Emissions(e, averageNow_carbonIntensity)
        b == Emissions(e, averageBest_carbonIntensity)
    IN [now |-> n, best |-> b, savings |-> FracMinus(n, b)]

NoFootprint ==
    [now |-> [num |-> 0, den |-> 1], best |-> [num |-> 0, den |-> 1],
     savings |-> [num |-> 0, den |-> 1]]


\* ------------------------------------------------------------------------
\* CI_api_interface.API_interfaces, validate_duration, the IP lookup
\* ------------------------------------------------------------------------
API_interfaces == [n \in {DefaultAPI} |-> "APIInterface(carbonintensity.org.uk)"]

\* validate_duration(duration): [ok, value]
validate_duration(d) == [ok |-> d > 0, value |-> d]

\* what https://ipapi.co/json may answer
IpResponses ==
    {[status_code |-> 200, postal |-> "SW7"],
     [status_code |-> 200, postal |-> None],
     [status_code |-> 429, postal |-> Absent]}

NoReply == [status_code |-> 0, postal |-> Absent]

NoHardwareInfo == [kind |-> "none", exc |-> "none", status |-> -1, value |-> << >>]

\* ------------------------------------------------------------------------
\* State
\* ------------------------------------------------------------------------
VARIABLES
    args,              \* the parsed command line
    config,            \* the configuration mapping
    choice_CI_API,     \* main: the chosen provider name
    CI_API_interface,  \* the provider interface
    location,
    duration,
    CI_forecast,
    now_avg,
    best_avg,
    jobinfo,           \* main: the validated job info
    estim_call,        \* the arguments greenAlgorithmsCalculator was given
    estim,             \* the footprint estimate
    ip_reply,          \* the answer of the IP lookup
    hw_info,           \* what get_hardware_info gave
    stdout,
    stderr,            \* what was written to stderr or logged, as tags
    http,              \* the requests made
    pc,                \* where the run is
    exc,               \* the uncaught exception that ended the run
    exit_status        \* the status sys.exit was called with, or -1

vars == <<args, config, choice_CI_API, CI_API_interface, location, duration,
          CI_forecast, now_avg, best_avg, jobinfo, estim_call, estim,
          ip_reply, hw_info, stdout, stderr, http, pc, exc, exit_status>>

NoCall ==
    [averageBest_carbonIntensity |-> [num |-> 0, den |-> 1],
     averageNow_carbonIntensity |-> [num |-> 0, den |-> 1],
     runtime |-> 0, job |-> EmptyDict, made |-> FALSE]

\* everything but args and pc, before the first statement
Blank ==
    /\ config = EmptyDict
    /\ choice_CI_API = None
    /\ CI_API_interface = None
    /\ location = None
    /\ duration = 0
    /\ CI_forecast = NoForecast
    /\ now_avg = NoEstimate
    /\ best_avg = NoEstimate
    /\ jobinfo = EmptyDict
    /\ estim_call = NoCall
    /\ estim = NoFootprint
    /\ ip_reply = NoReply
    /\ hw_info = NoHardwareInfo
    /\ stdout = << >>
    /\ stderr = << >>
    /\ http = << >>
    /\ exc = "none"
    /\ exit_status = -1

\* raise e, uncaught
Raise(e) == pc' = "raised" /\ exc' = e

\* ------------------------------------------------------------------------
\* cats.main
\* ------------------------------------------------------------------------
MainDurations == {0, 30, 45}

MainArgs ==
    [duration : MainDurations,
     api : {None, DefaultAPI, "bogus.example"},
     location : {None, "M15"},
     config : {None, "my.yml"},
     jobinfo : {NoText} \cup MainJobInfos]

InitMain == args \in MainArgs /\ pc = "load_config" /\ Blank

\* lines 63-76
MainLoadConfig ==
    /\ pc = "load_config"
    /\ \E file \in FileOutcomes :
         IF Truthy(args.config)
         THEN IF file = NoFile
              THEN /\ Raise("FileNotFoundError")
                   /\ UNCHANGED <<config, stderr>>
              ELSE /\ config' = file
                   /\ stderr' = Append(stderr, "Using provided config file")
                   /\ pc' = "api"
                   /\ UNCHANGED exc
         ELSE /\ config' = IF file = NoFile THEN EmptyDict ELSE file
              /\ stderr' = Append(stderr, IF file = NoFile
                                          THEN "WARNING: config file not found"
                                          ELSE "Using config.yml found in current directory")
              /\ pc' = "api"
              /\ UNCHANGED exc
    /\ UNCHANGED <<args, choice_CI_API, CI_API_interface, location, duration,
                   CI_forecast, now_avg, best_avg, jobinfo, estim_call, estim,
                   stdout, http, exit_status, hw_info, ip_reply>>

list_CI_APIs == {DefaultAPI}

\* lines 81-85
MainChoice(a, cfg) ==
    IF Truthy(a.api) THEN a.api
    ELSE IF "api" \in DOMAIN cfg THEN cfg["api"] ELSE DefaultAPI

\* lines 78-89
MainChoiceCIAPI ==
    /\ pc = "api"
    /\ choice_CI_API' = MainChoice(args, config)
    /\ IF choice_CI_API' \notin list_CI_APIs
       THEN Raise("ValueError: not a valid API choice") /\ UNCHANGED stderr
       ELSE /\ stderr' = Append(stderr, "Using API for carbon intensity forecasts")
            /\ pc' = "location"
            /\ UNCHANGED exc
    /\ UNCHANGED <<args, config, CI_API_interface, location, duration,
                   CI_forecast, now_avg, best_avg, jobinfo, estim_call, estim,
                   stdout, http, exit_status, hw_info, ip_reply>>

\* (a slip: the config entry overrides the argument)
MainResolveLocation_ConfigFirst(a, cfg, r) ==
    IF "location" \in DOMAIN cfg
    THEN [ok |-> TRUE, location |-> cfg["location"], requested |-> FALSE, exc |-> "none"]
    ELSE IF Truthy(a.location)
    THEN [ok |-> TRUE, location |-> a.location, requested |-> FALSE, exc |-> "none"]
    ELSE IF r.postal = Absent
    THEN [ok |-> FALSE, location |-> None, requested |-> TRUE, exc |-> "KeyError: 'postal'"]
    ELSE [ok |-> TRUE, location |-> r.postal, requested |-> TRUE, exc |-> "none"]

\* lines 92-102, r being the answer of the IP lookup if it is asked
MainResolveLocation(a, cfg, r) ==
    IF Truthy(a.location)
    THEN [ok |-> TRUE, location |-> a.location, requested |-> FALSE, exc |-> "none"]
    ELSE IF "location" \in DOMAIN cfg
    THEN [ok |-> TRUE, location |-> cfg["location"], requested |-> FALSE, exc |-> "none"]
    ELSE IF r.postal = Absent
    THEN [ok |-> FALSE, location |-> None, requested |-> TRUE, exc |-> "KeyError: 'postal'"]
    ELSE [ok |-> TRUE, location |-> r.postal, requested |-> TRUE, exc |-> "none"]

\* the IP lookup answers only if asked: one answer stands for all when it is not
IpAnswers(a, cfg) ==
    IF Truthy(a.location) \/ "location" \in DOMAIN cfg
    THEN {[status_code |-> 200, postal |-> "SW7"]}
    ELSE IpResponses

\* lines 91-102
MainLocation ==
    /\ pc = "location"
    /\ \E r \in IpAnswers(args, config) :
         LET res == MainResolveLocation(args, config, r) IN
         /\ http' = IF res.requested THEN Append(http, "https://ipapi.co/json") ELSE http
         /\ ip_reply' = IF res.requested THEN r ELSE ip_reply
         /\ IF res.ok
            THEN /\ location' = res.location
                 /\ stderr' = Append(stderr,
                        IF Truthy(args.location) THEN "Using location provided"
                        ELSE IF res.requested
                        THEN "WARNING: location not provided. Estimating location from IP address"
                        ELSE "Using location from config file")
                 /\ pc' = "duration"
                 /\ UNCHANGED exc
            ELSE Raise(res.exc) /\ UNCHANGED <<location, stderr>>
    /\ UNCHANGED <<args, config, choice_CI_API, CI_API_interface, duration,
                   CI_forecast, now_avg, best_avg, jobinfo, estim_call, estim,
                   stdout, exit_status, hw_info>>

\* line 105
MainDuration ==
    /\ pc = "duration"
    /\ LET v == validate_duration(args.duration) IN
       IF v.ok
       THEN duration' = v.value /\ pc' = "fetch" /\ UNCHANGED exc
       ELSE Raise("ValueError: duration") /\ UNCHANGED duration
    /\ UNCHANGED <<args, config, choice_CI_API, CI_API_interface, location,
                   CI_forecast, now_avg, best_avg, jobinfo, estim_call, estim,
                   stdout, stderr, http, exit_status, hw_info, ip_reply>>

\* lines 111-120: get_CI_forecast answers with a forecast or rejects the location
MainFetch ==
    /\ pc = "fetch"
    /\ CI_API_interface' = API_interfaces[choice_CI_API]
    /\ http' = Append(http, "forecast")
    /\ \/ /\ \E f \in Forecasts : CI_forecast' = f
          /\ pc' = "optimise"
          /\ UNCHANGED <<stderr, exit_status>>
       \/ /\ stderr' = stderr \o <<"Error: unknown location", "Location should be be specified as the outward code">>
          /\ pc' = "exited"
          /\ exit_status' = 1
          /\ UNCHANGED CI_forecast
    /\ UNCHANGED <<args, config, choice_CI_API, location, duration,
                   now_avg, best_avg, jobinfo, estim_call, estim, stdout, exc,
                   hw_info, ip_reply>>


\* (a slip: the pair unpacked in the wrong order)
MainEstimates_Swapped(f, d) ==
    LET r == get_avg_estimates(f, d) IN
    [error |-> r.error, now_avg |-> r.best, best_avg |-> r.now]

\* lines 128-130: now_avg, best_avg = get_avg_estimates(CI_forecast, duration=duration)
MainEstimates(f, d) ==
    LET r == get_avg_estimates(f, d) IN
    [error |-> r.error, now_avg |-> r.now, best_avg |-> r.best]

\* (a slip: a failed optimisation falls back to starting at the first sample)
MainOptimise_Fallback ==
    /\ pc = "optimise"
    /\ LET r == MainEstimates(CI_forecast, duration) IN
       /\ now_avg' = r.now_avg
       /\ best_avg' = IF r.error = "InsufficientForecastHorizon"
                      THEN [start |-> CI_forecast.samples[1].t, value |-> r.best_avg.value]
                      ELSE r.best_avg
       /\ IF r.error = "EmptyForecast"
          THEN Raise(r.error) /\ UNCHANGED stderr
          ELSE /\ stderr' = Append(stderr, "best_avg")
               /\ pc' = "print"
               /\ UNCHANGED exc
    /\ UNCHANGED <<args, config, choice_CI_API, CI_API_interface, location, duration,
                   CI_forecast, jobinfo, estim_call, estim, stdout, http, exit_status, hw_info, ip_reply>>

\* lines 128-131
MainOptimise ==
    /\ pc = "optimise"
    /\ LET r == MainEstimates(CI_forecast, duration) IN
       IF r.error # "none"
       THEN Raise(r.error) /\ UNCHANGED <<now_avg, best_avg, stderr>>
       ELSE /\ now_avg' = r.now_avg
            /\ best_avg' = r.best_avg
            /\ stderr' = Append(stderr, "best_avg")
            /\ pc' = "print"
            /\ UNCHANGED exc
    /\ UNCHANGED <<args, config, choice_CI_API, CI_API_interface, location, duration,
                   CI_forecast, jobinfo, estim_call, estim, stdout, http, exit_status, hw_info, ip_reply>>

\* (a slip: the start time goes to stderr only)
MainPrint_StderrOnly ==
    /\ pc = "print"
    /\ stderr' = Append(stderr, "Best job start time")
    /\ pc' = "validate"
    /\ UNCHANGED <<args, config, choice_CI_API, CI_API_interface, location, duration,
                   CI_forecast, now_avg, best_avg, jobinfo, estim_call, estim,
                   stdout, http, exc, exit_status, hw_info, ip_reply>>

\* lines 133-134
MainPrint ==
    /\ pc = "print"
    /\ stderr' = Append(stderr, "Best job start time")
    /\ stdout' = Append(stdout, strftime(best_avg.start))
    /\ pc' = "validate"
    /\ UNCHANGED <<args, config, choice_CI_API, CI_API_interface, location, duration,
                   CI_forecast, now_avg, best_avg, jobinfo, estim_call, estim,
                   http, exc, exit_status, hw_info, ip_reply>>

JobinfoErrorText(err) ==
    CASE err = "missing_keys" -> "ERROR: Missing job info keys"
      [] err = "bad_profile" -> "ERROR: job info key 'profile' should be one of"
      [] OTHER -> "ERROR: job info key should be numeric"

\* lines 142-143
MainValidateJobinfo ==
    /\ pc = "validate"
    /\ IF ~TruthyText(args.jobinfo)
       THEN pc' = "done" /\ UNCHANGED <<jobinfo, stderr, exc>>
       ELSE IF "partitions" \notin DOMAIN config
       THEN Raise("KeyError: 'partitions'") /\ UNCHANGED <<jobinfo, stderr>>
       ELSE LET v == validate_jobinfo(args.jobinfo, NameSet(config["partitions"])) IN
            /\ jobinfo' = v.info
            /\ stderr' = IF v.err = "none" THEN stderr
                         ELSE Append(stderr, JobinfoErrorText(v.err))
            /\ pc' = "footprint"
            /\ UNCHANGED exc
    /\ UNCHANGED <<args, config, choice_CI_API, CI_API_interface, location, duration,
                   CI_forecast, now_avg, best_avg, estim_call, estim,
                   stdout, http, exit_status, hw_info, ip_reply>>

error_message == "Not enough information to estimate total carbon footprint, both --jobinfo and config files are needed."

\* (a slip: the two intensities passed the wrong way round)
FootprintCall_Swapped(minutes, best, now, job) ==
    [averageBest_carbonIntensity |-> now.value,
     averageNow_carbonIntensity |-> best.value,
     runtime |-> minutes, job |-> job, made |-> TRUE]

\* lines 148-154: the arguments of greenAlgorithmsCalculator
FootprintCall(minutes, best, now, job) ==
    [averageBest_carbonIntensity |-> best.value,
     averageNow_carbonIntensity |-> now.value,
     runtime |-> minutes, job |-> job, made |-> TRUE]

\* lines 145-161.  The calculator is given the whole config and the counts:
\* which partition's power it reads, and whether it takes a keyword other
\* than memory, cpus and gpus, is not decided by main.
MainFootprint ==
    /\ pc = "footprint"
    /\ IF ~(jobinfo # EmptyDict /\ config # EmptyDict)
       THEN /\ stderr' = Append(stderr, error_message)
            /\ pc' = "done"
            /\ UNCHANGED <<estim_call, estim, exc>>
       ELSE \/ /\ DOMAIN jobinfo # expected_info_keys
               /\ Raise("TypeError: unexpected keyword argument")
               /\ UNCHANGED <<estim_call, estim, stderr>>
            \/ \E name \in NameSet(config["partitions"]) :
                 LET call == FootprintCall(args.duration, best_avg, now_avg, jobinfo) IN
                 /\ estim_call' = call
                 /\ estim' = get_footprint(PartitionPower(name), call.job, call.runtime,
                                           call.averageBest_carbonIntensity,
                                           call.averageNow_carbonIntensity)
                 /\ stderr' = stderr \o <<"Estimated emmissions for running job now",
                                          "Estimated emmissions for running delayed job">>
                 /\ pc' = "done"
                 /\ UNCHANGED exc
    /\ UNCHANGED <<args, config, choice_CI_API, CI_API_interface, location, duration,
                   CI_forecast, now_avg, best_avg, jobinfo, stdout, http, exit_status, hw_info, ip_reply>>

NextMain ==
    \/ MainLoadConfig
    \/ MainChoiceCIAPI
    \/ MainLocation
    \/ MainDuration
    \/ MainFetch
    \/ MainOptimise
    \/ MainPrint
    \/ MainValidateJobinfo
    \/ MainFootprint

Spec == InitMain /\ [][NextMain]_vars


\* ------------------------------------------------------------------------
\* cats.configure
\* ------------------------------------------------------------------------
\* lines 13-21: the names the module binds by its imports
ConfigureImports ==
    {"logging", "sys", "Mapping", "Any", "requests", "yaml", "API_interfaces", "APIInterface"}

\* lines 59-73: [exc, config, log], given what opening the file gives
config_from_file(configpath, file) ==
    IF Truthy(configpath)
    THEN IF file = NoFile
         THEN [exc |-> "FileNotFoundError", config |-> EmptyDict, log |-> << >>]
         ELSE [exc |-> "none", config |-> file, log |-> << >>]
    ELSE IF file = NoFile
    THEN [exc |-> "none", config |-> EmptyDict, log |-> <<"config file not found">>]
    ELSE [exc |-> "none", config |-> file, log |-> << >>]

\* lines 77-81
CfgChoice(a, cfg) ==
    IF Truthy(a.api) THEN a.api
    ELSE IF "api" \in DOMAIN cfg THEN cfg["api"] ELSE DefaultAPI

\* lines 76-89: [interface, log]; after the error is logged the function ends
\* without a return statement, which returns None
CI_API_from_config_or_args(a, cfg) ==
    LET api == CfgChoice(a, cfg)
        warn == IF ~Truthy(a.api) /\ "api" \notin DOMAIN cfg
                THEN <<"Unspecified carbon intensity forecast service">> ELSE << >>
    IN IF api \in DOMAIN API_interfaces
       THEN [interface |-> API_interfaces[api], log |-> warn]
       ELSE [interface |-> None, log |-> Append(warn, "Error: not a valid API choice")]

\* lines 92-115, reply being the answer of the IP lookup if it is asked
get_location_from_config_or_args(a, cfg, reply) ==
    IF Truthy(a.location)
    THEN [kind |-> "return", location |-> a.location, requested |-> FALSE, exc |-> "none"]
    ELSE IF "location" \in DOMAIN cfg
    THEN [kind |-> "return", location |-> cfg["location"], requested |-> FALSE, exc |-> "none"]
    ELSE IF reply.status_code # 200
    THEN [kind |-> "exit", location |-> None, requested |-> TRUE, exc |-> "none"]
    ELSE IF reply.postal = Absent
    THEN [kind |-> "raise", location |-> None, requested |-> TRUE, exc |-> "KeyError: 'postal'"]
    ELSE IF ~Truthy(reply.postal)
    THEN [kind |-> "raise", location |-> None, requested |-> TRUE, exc |-> "AssertionError"]
    ELSE [kind |-> "return", location |-> reply.postal, requested |-> TRUE, exc |-> "none"]

HwRaise(e) == [kind |-> "raise", exc |-> e, status |-> -1, value |-> << >>]

HwExit(n) == [kind |-> "exit", exc |-> "none", status |-> n, value |-> << >>]

HwReturn(v) == [kind |-> "return", exc |-> "none", status |-> -1, value |-> v]

\* lines 139-167, info being the parsed dict and profiles the ordered keys
HardwareInfoOf(info, profiles) ==
    IF expected_info_keys \ DOMAIN info # {}
    THEN HwReturn(EmptyDict)
    ELSE IF <<"profile">> \in DOMAIN info
    THEN HwExit(1)
    ELSE IF profiles = << >>
    THEN HwRaise("StopIteration")
    ELSE IF \E k \in DOMAIN info : ~IntOkSigned(info[k])
    THEN HwRaise("NameError: name 'loggin' is not defined")
    ELSE IF <<"ncpus">> \notin DOMAIN info
    THEN HwRaise("KeyError: 'ncpus'")
    ELSE IF <<"ngpus">> \notin DOMAIN info
    THEN HwRaise("KeyError: 'ngpus'")
    ELSE HwReturn(<< <<PartitionPower(profiles[1]).cpu, IntOfSigned(info[<<"ncpus">>])>>,
                     <<PartitionPower(profiles[1]).gpu, IntOfSigned(info[<<"ngpus">>])>> >>)

\* lines 118-167.  jobinfo_arg is [kind, text]: a str, or another object
get_hardware_info(jobinfo_arg, profiles) ==
    IF "re" \notin ConfigureImports
    THEN HwRaise("NameError: name 're' is not defined")
    ELSE IF jobinfo_arg.kind # "str"
    THEN HwRaise("TypeError: expected string or bytes-like object")
    ELSE HardwareInfoOf(ParseInfo(jobinfo_arg.text), profiles)

\* lines 46-54: [exc, duration]
RuntimeDuration(text) ==
    IF ~IntOkSigned(text)
    THEN [exc |-> "AttributeError: module 'logging' has no attribute 'eror'", duration |-> 0]
    ELSE IF IntOfSigned(text) <= 0
    THEN [exc |-> "ValueError", duration |-> 0]
    ELSE [exc |-> "none", duration |-> IntOfSigned(text)]

DurationTexts == {<<"6", "0">>, <<"0">>, <<"-", "5">>, <<"a", "b">>}

CfgArgs ==
    [duration : DurationTexts,
     api : {None, DefaultAPI, "bogus.example"},
     location : {None, "M15"},
     config : {None, "my.yml"},
     jobinfo : {NoText} \cup MainJobInfos]

InitCfg == args \in CfgArgs /\ pc = "config_from_file" /\ Blank

\* line 41
CfgConfigFromFile ==
    /\ pc = "config_from_file"
    /\ \E file \in FileOutcomes :
         LET res == config_from_file(args.config, file) IN
         /\ stderr' = stderr \o res.log
         /\ IF res.exc # "none"
            THEN Raise(res.exc) /\ UNCHANGED config
            ELSE config' = res.config /\ pc' = "CI_API" /\ UNCHANGED exc
    /\ UNCHANGED <<args, choice_CI_API, CI_API_interface, location, duration,
                   CI_forecast, now_avg, best_avg, jobinfo, estim_call, estim,
                   stdout, http, exit_status, hw_info, ip_reply>>

\* line 42
CfgCIAPI ==
    /\ pc = "CI_API"
    /\ LET res == CI_API_from_config_or_args(args, config) IN
       /\ CI_API_interface' = res.interface
       /\ stderr' = stderr \o res.log
    /\ pc' = "location"
    /\ UNCHANGED <<args, config, choice_CI_API, location, duration,
                   CI_forecast, now_avg, best_avg, jobinfo, estim_call, estim,
                   stdout, http, exc, exit_status, hw_info, ip_reply>>

\* line 43
CfgLocation ==
    /\ pc = "location"
    /\ \E reply \in IpAnswers(args, config) :
         LET res == get_location_from_config_or_args(args, config, reply) IN
         /\ http' = IF res.requested THEN Append(http, "https://ipapi.co/json/") ELSE http
         /\ ip_reply' = IF res.requested THEN reply ELSE ip_reply
         /\ IF res.kind = "return"
            THEN /\ location' = res.location
                 /\ pc' = "hardware_info"
                 /\ UNCHANGED <<exc, exit_status>>
            ELSE IF res.kind = "exit"
            THEN /\ pc' = "exited"
                 /\ exit_status' = 1
                 /\ UNCHANGED <<location, exc>>
            ELSE Raise(res.exc) /\ UNCHANGED <<location, exit_status>>
    /\ UNCHANGED <<args, config, choice_CI_API, CI_API_interface, duration,
                   CI_forecast, now_avg, best_avg, jobinfo, estim_call, estim,
                   stdout, stderr, hw_info>>

\* the ordered keys of the mapping get_runtime_config hands to get_hardware_info
KeySeq(cfg) ==
    (IF "api" \in DOMAIN cfg THEN << <<"api">> >> ELSE << >>)
      \o (IF "location" \in DOMAIN cfg THEN << <<"location">> >> ELSE << >>)
      \o (IF "partitions" \in DOMAIN cfg THEN << <<"partitions">> >> ELSE << >>)

\* lines 44-56: hw_info = get_hardware_info(args, configmapping), then the
\* duration check and the return
CfgHardwareInfoAndDuration ==
    /\ pc = "hardware_info"
    /\ LET hw == get_hardware_info([kind |-> "Namespace", text |-> NoText], KeySeq(config))
           dur == RuntimeDuration(args.duration)
       IN /\ hw_info' = hw
          /\ IF hw.kind = "raise"
             THEN Raise(hw.exc) /\ UNCHANGED <<duration, exit_status>>
             ELSE IF hw.kind = "exit"
             THEN /\ pc' = "exited"
                  /\ exit_status' = hw.status
                  /\ UNCHANGED <<duration, exc>>
             ELSE IF dur.exc # "none"
             THEN Raise(dur.exc) /\ UNCHANGED <<duration, exit_status>>
             ELSE /\ duration' = dur.duration
                  /\ pc' = "returned"
                  /\ UNCHANGED <<exc, exit_status>>
    /\ UNCHANGED <<args, config, choice_CI_API, CI_API_interface, location,
                   CI_forecast, now_avg, best_avg, jobinfo, estim_call, estim,
                   stdout, stderr, http, ip_reply>>

NextCfg ==
    \/ CfgConfigFromFile
    \/ CfgCIAPI
    \/ CfgLocation
    \/ CfgHardwareInfoAndDuration

SpecCfg == InitCfg /\ [][NextCfg]_vars

\* ------------------------------------------------------------------------
\* validate_jobinfo and get_hardware_info, called on their own
\* ------------------------------------------------------------------------
ProfileLists == PartitionLists \cup {<< >>}

InitJob ==
    /\ \E text \in JobInfoStrings :
         args = [duration |-> 30, api |-> None, location |-> None,
                 config |-> None, jobinfo |-> text]
    /\ pc = "call"
    /\ \E p \in ProfileLists : config = MkConfig(Absent, Absent, TRUE, p)
    /\ choice_CI_API = None
    /\ CI_API_interface = None
    /\ location = None
    /\ duration = 0
    /\ CI_forecast = NoForecast
    /\ now_avg = NoEstimate
    /\ best_avg = NoEstimate
    /\ jobinfo = EmptyDict
    /\ estim_call = NoCall
    /\ estim = NoFootprint
    /\ ip_reply = NoReply
    /\ hw_info = NoHardwareInfo
    /\ stdout = << >>
    /\ stderr = << >>
    /\ http = << >>
    /\ exc = "none"
    /\ exit_status = -1

\* jobinfo = validate_jobinfo(args.jobinfo, expected_profile_names)
CallValidateJobinfo ==
    /\ pc = "call"
    /\ LET v == validate_jobinfo(args.jobinfo, NameSet(config["partitions"])) IN
       /\ jobinfo' = v.info
       /\ stderr' = IF v.err = "none" THEN stderr ELSE Append(stderr, JobinfoErrorText(v.err))
    /\ pc' = "validated"
    /\ UNCHANGED <<args, config, choice_CI_API, CI_API_interface, location, duration,
                   CI_forecast, now_avg, best_avg, estim_call, estim,
                   stdout, http, exc, exit_status, hw_info, ip_reply>>

\* hw_info = get_hardware_info(args.jobinfo, profiles)
CallGetHardwareInfo ==
    /\ pc = "validated"
    /\ hw_info' = get_hardware_info([kind |-> "str", text |-> args.jobinfo],
                                    config["partitions"])
    /\ pc' = "hardware_info_done"
    /\ UNCHANGED <<args, config, choice_CI_API, CI_API_interface, location, duration,
                   CI_forecast, now_avg, best_avg, jobinfo, estim_call, estim,
                   stdout, stderr, http, exc, exit_status, ip_reply>>

NextJob == CallValidateJobinfo \/ CallGetHardwareInfo

SpecJob == InitJob /\ [][NextJob]_vars


\* ------------------------------------------------------------------------
\* Properties
\* ------------------------------------------------------------------------
\* main is past line 131: get_avg_estimates has returned
OptimiserReturned ==
    \/ pc \in {"print", "validate", "footprint", "done"}
    \/ pc = "raised" /\ exc \in {"KeyError: 'partitions'", "TypeError: unexpected keyword argument"}

\* main is past line 102 with a location
MainLocationResolved ==
    \/ pc \in {"duration", "fetch", "optimise", "exited"}
    \/ OptimiserReturned
    \/ pc = "raised" /\ exc \in {"ValueError: duration", "EmptyForecast", "InsufficientForecastHorizon"}

OnStderr(text) == \E n \in 1..Len(stderr) : stderr[n] = text

Requested(url) == \E n \in 1..Len(http) : http[n] = url

\* C1: once the optimiser has returned in main, best_avg starts at a sample
\* at which a full window fits, its value is that window's time-weighted
\* average, no fitting sample-aligned window has a lower average, none with
\* the same average starts earlier, and now_avg is the window at the first
\* sample.
C1_BestIsEarliestMinimum ==
    OptimiserReturned =>
        /\ Len(CI_forecast.samples) > 0
        /\ CI_forecast.horizon - CI_forecast.samples[1].t >= duration
        /\ \E n \in CandidateStarts(CI_forecast, duration) :
             /\ best_avg.start = CI_forecast.samples[n].t
             /\ best_avg.value = WindowAverage(CI_forecast, best_avg.start, duration)
             /\ \A m \in CandidateStarts(CI_forecast, duration) :
                  LET other == WindowAverage(CI_forecast, CI_forecast.samples[m].t, duration) IN
                  /\ FracLeq(best_avg.value, other)
                  /\ FracEq(best_avg.value, other) => n <= m
        /\ now_avg.start = CI_forecast.samples[1].t
        /\ now_avg.value = WindowAverage(CI_forecast, now_avg.start, duration)

\* a run in which the best window starts later than the first sample and
\* is strictly better, its window overlapping two samples partly
C1_Witness ==
    /\ pc = "print"
    /\ best_avg.start > now_avg.start
    /\ FracLess(best_avg.value, now_avg.value)
    /\ duration = 45

C3_StartTimeReportedFirst ==
    /\ [][(MainValidateJobinfo \/ MainFootprint) =>
             (stdout = <<strftime(best_avg.start)>> /\ stdout' = stdout)]_vars
    /\ []((\/ pc \in {"validate", "footprint", "done"}
           \/ pc = "raised" /\ exc \in {"KeyError: 'partitions'",
                                        "TypeError: unexpected keyword argument"}
           \/ estim_call.made
           \/ OnStderr(error_message))
          => stdout = <<strftime(best_avg.start)>>)

\* the footprint part has failed with an exception and the start time, of
\* the day after the first sample's, is on stdout
C3_Witness ==
    /\ pc = "raised"
    /\ exc = "KeyError: 'partitions'"
    /\ stdout = << <<2023, 1, 2, 0, 0>> >>

\* C4 (as claimed): in a run of main with --jobinfo that is past the report
\* of the start time and has ended: if no config was loaded or the job info
\* is invalid, the error message is on stderr, no estimate was made and the
\* run ended normally; if the job info is valid and a config is loaded, the
\* estimate was made and reported.
C4_AsClaimed ==
    (pc \in {"done", "raised"} /\ OptimiserReturned /\ TruthyText(args.jobinfo)) =>
        IF OnStderr("WARNING: config file not found")
        THEN pc = "done" /\ OnStderr(error_message) /\ ~estim_call.made
        ELSE IF "partitions" \notin DOMAIN config
        THEN TRUE
        ELSE IF validate_jobinfo(args.jobinfo, NameSet(config["partitions"])).info = EmptyDict
        THEN pc = "done" /\ OnStderr(error_message) /\ ~estim_call.made
        ELSE IF DOMAIN jobinfo = expected_info_keys
        THEN /\ pc = "done"
             /\ estim_call.made
             /\ OnStderr("Estimated emmissions for running job now")
        ELSE TRUE

\* C5: stdout is empty until the forecast is held and the optimiser has
\* returned a best window for it, and then holds that window's start; a run
\* whose API choice is rejected, whose location is unknown (exit status 1),
\* whose duration is invalid or whose optimisation fails has an empty stdout
\* and no footprint estimate.
C5_NoInventedStartTime ==
    LET held == CI_forecast # NoForecast
        res == get_avg_estimates(CI_forecast, args.duration)
    IN /\ stdout # << >> =>
            /\ held
            /\ duration = args.duration
            /\ res.error = "none"
            /\ stdout = <<strftime(res.best.start)>>
       /\ (\/ (pc # "load_config" /\ MainChoice(args, config) \notin list_CI_APIs)
           \/ args.duration <= 0
           \/ pc = "exited"
           \/ (pc \notin {"load_config", "api", "location", "duration", "fetch"}
                 /\ held /\ res.error # "none"))
            => (stdout = << >> /\ ~estim_call.made /\ estim = NoFootprint
                  /\ pc \notin {"print", "validate", "footprint", "done"})
       /\ pc = "exited" => (exit_status = 1 /\ OnStderr("Error: unknown location"))

\* the optimiser has failed on a forecast shorter than the job
C5_Witness ==
    /\ pc = "raised"
    /\ exc = "InsufficientForecastHorizon"
    /\ Len(CI_forecast.samples) > 0
    /\ stdout = << >>

\* is the text a positive integer
PositiveInteger(text) == IntOkSigned(text) /\ IntOfSigned(text) > 0

\* C6 (as documented): a call of get_runtime_config whose configuration
\* resolves (config file, provider, location) ends with ValueError if
\* args.duration is not a positive integer, and otherwise returns with that
\* integer as the duration.
C6_AsDocumented ==
    (hw_info.kind # "none" /\ CI_API_interface # None) =>
        IF PositiveInteger(args.duration)
        THEN pc = "returned" /\ duration = IntOfSigned(args.duration)
        ELSE pc = "raised" /\ exc = "ValueError"

C8_AsClaimed ==
    LET info == ParseInfo(args.jobinfo)
        names == NameSet(config["partitions"])
        counted == /\ expected_info_keys \subseteq DOMAIN info
                   /\ \A k \in DOMAIN info \ {<<"profile">>} : IntOk(info[k])
        resolves == IF <<"profile">> \in DOMAIN info
                    THEN info[<<"profile">>] \in names
                    ELSE names # {}
    IN /\ (pc \in {"validated", "hardware_info_done"} /\ counted /\ resolves)
            => jobinfo # EmptyDict
       /\ (pc = "hardware_info_done" /\ counted /\ resolves)
            => hw_info.kind = "return"
       /\ (pc = "hardware_info_done" /\ counted /\ hw_info.kind # "return")
            => (<<"profile">> \in DOMAIN info /\ info[<<"profile">>] \notin names)

\* C9 (as claimed): get_runtime_config goes on past the choice of the
\* provider only with the interface of a known provider, chosen as the
\* argument, else the config entry, else the default.
C9_AsClaimed ==
    (\/ pc \in {"location", "hardware_info", "returned", "exited"}
     \/ (pc = "raised" /\ exc # "FileNotFoundError"))
      => /\ CfgChoice(args, config) \in DOMAIN API_interfaces
         /\ CI_API_interface = API_interfaces[CfgChoice(args, config)]

\* the location by precedence: the argument, the config entry, the postal code
LocationByPrecedence ==
    IF Truthy(args.location) THEN args.location
    ELSE IF "location" \in DOMAIN config THEN config["location"]
    ELSE ip_reply.postal

\* C10 (as claimed): whenever main has resolved a location,
\* get_location_from_config_or_args resolves the same one from the same
\* argument, config and answer of the IP lookup.
C10_AsClaimed ==
    MainLocationResolved =>
        LET g == get_location_from_config_or_args(args, config, ip_reply) IN
        g.kind = "return" /\ g.location = location

\* C10 (amended): main asks the IP lookup exactly when neither the argument
\* nor the config gives a location, and so does
\* get_location_from_config_or_args; main's location is the argument, else
\* the config entry, else the postal code; whenever
\* get_location_from_config_or_args returns a location main resolves the
\* same one; and main resolves one where the other does not only if the
\* lookup was asked and did not answer 200 with a non-empty postal code.
C10_SameLocation ==
    (pc \notin {"load_config", "api", "location"}
       /\ ~(pc = "raised" /\ exc \in {"FileNotFoundError", "ValueError: not a valid API choice"}))
    => LET g == get_location_from_config_or_args(args, config, ip_reply)
           needed == ~Truthy(args.location) /\ "location" \notin DOMAIN config
       IN /\ Requested("https://ipapi.co/json") <=> needed
          /\ g.requested <=> needed
          /\ needed <=> ip_reply # NoReply
          /\ MainLocationResolved => location = LocationByPrecedence
          /\ g.kind = "return" => (MainLocationResolved /\ location = g.location)
          /\ (MainLocationResolved /\ g.kind # "return")
               => (needed /\ (ip_reply.status_code # 200 \/ ~Truthy(ip_reply.postal)))
          /\ ~MainLocationResolved => (needed /\ g.kind # "return")

\* the IP lookup was asked and both resolve its postal code
C10_Witness ==
    /\ pc = "duration"
    /\ Requested("https://ipapi.co/json")
    /\ location = "SW7"
    /\ get_location_from_config_or_args(args, config, ip_reply).location = "SW7"

=============================================================================
